---- MODULE Spec2Model ----
(***************************************************************************)
(* Model of src/src/binary_tree.rs: an unbalanced binary search tree       *)
(* (Node, BinaryTree) with insert, remove_item, find, for_each, iter and   *)
(* construction from a sequence.                                           *)
(*                                                                         *)
(* Option<Box<Node<T>>> is a sequence of length 0 (None) or 1 (Some), a    *)
(* Node is a record [item, left, right], and T is a small range of         *)
(* integers under their usual total order.  A panic (todo!(),              *)
(* unreachable!()) is recorded in call.panic together with the memory the  *)
(* unwinding leaves behind; the tree that panicked is not used again.      *)
(*                                                                         *)
(* src/src/sorts.rs (the four sorts) and src/src/substr.rs (WindowHasher,  *)
(* substr) are pure functions of their arguments: they are operators,      *)
(* applied by the actions of SpecSorts, SpecSubstr and SpecHasher to       *)
(* arguments drawn by the initial predicate.                               *)
(***************************************************************************)
EXTENDS Integers, Sequences, FiniteSets, TLC

\* ------------------------------------------------------------------ bounds
MaxElem == 4

MaxInput == 3

MaxLenField == 2

MaxItems == 4

MaxText == 5

MaxPattern == 5

MaxWindow == 5

Elems == 1..MaxElem

RECURSIVE SeqsUpTo(_)
SeqsUpTo(n) ==
    IF n = 0 THEN {<<>>}
    ELSE LET shorter == SeqsUpTo(n - 1)
         IN  shorter \cup {Append(s, e) : s \in {t \in shorter : Len(t) = n - 1}, e \in Elems}

Inputs == SeqsUpTo(MaxInput)

Slices == SeqsUpTo(MaxItems)

\* The bytes of the strings under test: "a" and "b".
Bytes == {97, 98}

RECURSIVE BytesUpTo(_)
BytesUpTo(n) ==
    IF n = 0 THEN {<<>>}
    ELSE LET shorter == BytesUpTo(n - 1)
         IN  shorter \cup {Append(s, b) : s \in {t \in shorter : Len(t) = n - 1}, b \in Bytes}

\* ------------------------------------------------------------------ Option
None == <<>>

Some(x) == <<x>>

\* ------------------------------------------------------------------ Node
NodeNew(item) == [item |-> item, left |-> None, right |-> None]

\* Mutant: only the left subtree is measured.
RECURSIVE NodeHeight_LeftOnly(_)
NodeHeight_LeftOnly(self) ==
    1 + (IF self.left = None THEN 0 ELSE NodeHeight_LeftOnly(self.left[1]))

\* Node::height(&self) -> usize.
RECURSIVE NodeHeight(_)
NodeHeight(self) ==
    LET left_h  == IF self.left = None THEN 0 ELSE NodeHeight(self.left[1])
        right_h == IF self.right = None THEN 0 ELSE NodeHeight(self.right[1])
    IN  1 + (IF left_h >= right_h THEN left_h ELSE right_h)

\* Returns Some(node) or None.
RECURSIVE NodeFind(_, _)
NodeFind(self, target) ==
    IF target = self.item THEN Some(self)
    ELSE IF target < self.item
         THEN IF self.left = None THEN None ELSE NodeFind(self.left[1], target)
         ELSE IF self.right = None THEN None ELSE NodeFind(self.right[1], target)

\* Mutant: elements that compare Less are hung on the right and vice versa.
RECURSIVE NodeInsert_WrongSide(_, _)
NodeInsert_WrongSide(self, new_node) ==
    IF new_node.item = self.item THEN [node |-> self, ret |-> FALSE]
    ELSE IF new_node.item < self.item
         THEN IF self.right # None
              THEN [node |-> [self EXCEPT !.right =
                                 Some(NodeInsert_WrongSide(self.right[1], new_node).node)],
                    ret |-> TRUE]
              ELSE [node |-> [self EXCEPT !.right = Some(new_node)], ret |-> TRUE]
         ELSE IF self.left # None
              THEN [node |-> [self EXCEPT !.left =
                                 Some(NodeInsert_WrongSide(self.left[1], new_node).node)],
                    ret |-> TRUE]
              ELSE [node |-> [self EXCEPT !.left = Some(new_node)], ret |-> TRUE]

\* Mutant: the Equal arm is missing, an equal element goes to the right.
RECURSIVE NodeInsert_NoEqual(_, _)
NodeInsert_NoEqual(self, new_node) ==
    IF new_node.item < self.item
    THEN IF self.left # None
         THEN [node |-> [self EXCEPT !.left =
                            Some(NodeInsert_NoEqual(self.left[1], new_node).node)],
               ret |-> TRUE]
         ELSE [node |-> [self EXCEPT !.left = Some(new_node)], ret |-> TRUE]
    ELSE IF self.right # None
         THEN [node |-> [self EXCEPT !.right =
                            Some(NodeInsert_NoEqual(self.right[1], new_node).node)],
               ret |-> TRUE]
         ELSE [node |-> [self EXCEPT !.right = Some(new_node)], ret |-> TRUE]

\* Node::insert(&mut self, new_node) -> bool.  node is self after the call.
\* The value of the recursive call is dropped (lines 96 and 105) and the
\* function falls through to `true` (line 113).
RECURSIVE NodeInsert(_, _)
NodeInsert(self, new_node) ==
    IF new_node.item = self.item THEN [node |-> self, ret |-> FALSE]
    ELSE IF new_node.item < self.item
         THEN IF self.left # None
              THEN [node |-> [self EXCEPT !.left =
                                 Some(NodeInsert(self.left[1], new_node).node)],
                    ret |-> TRUE]
              ELSE [node |-> [self EXCEPT !.left = Some(new_node)], ret |-> TRUE]
         ELSE IF self.right # None
              THEN [node |-> [self EXCEPT !.right =
                                 Some(NodeInsert(self.right[1], new_node).node)],
                    ret |-> TRUE]
              ELSE [node |-> [self EXCEPT !.right = Some(new_node)], ret |-> TRUE]

\* Mutant: a node with one child is replaced by nothing.
NodeRemoveSelf_DropChild(self) ==
    IF self.left # None /\ self.right # None
    THEN [item |-> self.item, node |-> None, panic |-> "todo"]
    ELSE [item |-> self.item, node |-> None, panic |-> "none"]

\* Node::remove_self(self) -> (T, Option<Box<Node<T>>>), or a panic.
NodeRemoveSelf(self) ==
    IF self.left = None /\ self.right = None
    THEN [item |-> self.item, node |-> None, panic |-> "none"]
    ELSE IF self.right = None
    THEN [item |-> self.item, node |-> self.left, panic |-> "none"]
    ELSE IF self.left = None
    THEN [item |-> self.item, node |-> self.right, panic |-> "none"]
    ELSE [item |-> self.item, node |-> None, panic |-> "todo"]

\* Mutant: the child is detached whenever it exists, without comparing its
\* item with the target.
RECURSIVE NodeRemoveItem_AnyChild(_, _)
NodeRemoveItem_AnyChild(self, item) ==
    IF item = self.item
    THEN [node |-> self, ret |-> None, panic |-> "unreachable"]
    ELSE IF item < self.item
    THEN IF self.left # None
         THEN LET rs == NodeRemoveSelf(self.left[1])
              IN  [node  |-> [self EXCEPT !.left = rs.node],
                   ret   |-> IF rs.panic = "none" THEN Some(rs.item) ELSE None,
                   panic |-> rs.panic]
         ELSE [node |-> self, ret |-> None, panic |-> "none"]
    ELSE IF self.right # None
         THEN LET rs == NodeRemoveSelf(self.right[1])
              IN  [node  |-> [self EXCEPT !.right = rs.node],
                   ret   |-> IF rs.panic = "none" THEN Some(rs.item) ELSE None,
                   panic |-> rs.panic]
         ELSE [node |-> self, ret |-> None, panic |-> "none"]

\* Node::remove_item(&mut self, item) -> Option<T>, or a panic.  node is self
\* after the call; when remove_self panics the child has already been taken
\* out of its slot (take() on lines 155 and 180), so the slot is None.
RECURSIVE NodeRemoveItem(_, _)
NodeRemoveItem(self, item) ==
    IF item = self.item
    THEN [node |-> self, ret |-> None, panic |-> "unreachable"]
    ELSE IF item < self.item
    THEN IF self.left # None /\ self.left[1].item = item
         THEN LET rs == NodeRemoveSelf(self.left[1])
              IN  [node  |-> [self EXCEPT !.left = rs.node],
                   ret   |-> IF rs.panic = "none" THEN Some(rs.item) ELSE None,
                   panic |-> rs.panic]
         ELSE IF self.left = None
              THEN [node |-> self, ret |-> None, panic |-> "none"]
              ELSE LET r == NodeRemoveItem(self.left[1], item)
                   IN  [node  |-> [self EXCEPT !.left = Some(r.node)],
                        ret   |-> r.ret,
                        panic |-> r.panic]
    ELSE IF self.right # None /\ self.right[1].item = item
         THEN LET rs == NodeRemoveSelf(self.right[1])
              IN  [node  |-> [self EXCEPT !.right = rs.node],
                   ret   |-> IF rs.panic = "none" THEN Some(rs.item) ELSE None,
                   panic |-> rs.panic]
         ELSE IF self.right = None
              THEN [node |-> self, ret |-> None, panic |-> "none"]
              ELSE LET r == NodeRemoveItem(self.right[1], item)
                   IN  [node  |-> [self EXCEPT !.right = Some(r.node)],
                        ret   |-> r.ret,
                        panic |-> r.panic]

\* Mutant: the walk stops after at most one step.
NodeMin_OneStep(self) ==
    IF self.left = None THEN self ELSE self.left[1]

\* Node::min(&self) -> &Node<T>: walk left until there is no left child.
RECURSIVE NodeMin(_)
NodeMin(self) ==
    IF self.left = None THEN self ELSE NodeMin(self.left[1])

\* Node::max(&self) -> &Node<T>: walk right until there is no right child.
RECURSIVE NodeMax(_)
NodeMax(self) ==
    IF self.right = None THEN self ELSE NodeMax(self.right[1])

\* Mutant: the item is visited before the left subtree (pre-order).
RECURSIVE NodeForEach_PreOrder(_)
NodeForEach_PreOrder(self) ==
    <<self.item>>
    \o (IF self.left = None THEN <<>> ELSE NodeForEach_PreOrder(self.left[1]))
    \o (IF self.right = None THEN <<>> ELSE NodeForEach_PreOrder(self.right[1]))

\* Node::for_each(&self, f): the sequence of items f is called with.
RECURSIVE NodeForEach(_)
NodeForEach(self) ==
    (IF self.left = None THEN <<>> ELSE NodeForEach(self.left[1]))
    \o <<self.item>>
    \o (IF self.right = None THEN <<>> ELSE NodeForEach(self.right[1]))

\* ------------------------------------------------------------------ BinaryTree
BinaryTreeNew == [root |-> None, len |-> 0]

BinaryTreeForEach(self) ==
    IF self.root = None THEN <<>> ELSE NodeForEach(self.root[1])

BinaryTreeIter(self) == BinaryTreeForEach(self)

BinaryTreeLen(self) == Len(BinaryTreeForEach(self))

\* Mutant: is_empty() reads the stored counter, as its TODO proposes.
BinaryTreeIsEmpty_LenField(self) == self.len = 0

BinaryTreeIsEmpty(self) == self.root = None

BinaryTreeHeight(self) ==
    IF self.root = None THEN 0 ELSE NodeHeight(self.root[1])

BinaryTreeContains(self, item) ==
    self.root # None /\ NodeFind(self.root[1], item) # None

\* BinaryTree::min(&self) -> Option<&T>.
BinaryTreeMin(self) ==
    IF self.root = None THEN None ELSE Some(NodeMin(self.root[1]).item)

\* BinaryTree::max(&self) -> Option<&T>.
BinaryTreeMax(self) ==
    IF self.root = None THEN None ELSE Some(NodeMax(self.root[1]).item)

\* Mutant: the lengths are not compared, zip stops at the shorter sequence.
BinaryTreeEq_NoLen(self, other) ==
    LET l == BinaryTreeIter(self)
        r == BinaryTreeIter(other)
        n == IF Len(l) <= Len(r) THEN Len(l) ELSE Len(r)
    IN  \A i \in 1..n : l[i] = r[i]

\* PartialEq::eq(&self, other) -> bool: false on different len(), else the
\* zipped in-order sequences are compared pair by pair.
BinaryTreeEq(self, other) ==
    IF BinaryTreeLen(self) # BinaryTreeLen(other) THEN FALSE
    ELSE LET l == BinaryTreeIter(self)
             r == BinaryTreeIter(other)
             n == IF Len(l) <= Len(r) THEN Len(l) ELSE Len(r)
         IN  \A i \in 1..n : l[i] = r[i]

\* BinaryTree::insert(&mut self, item) -> bool.  tree is self after the call.
BinaryTreeInsert(self, item) ==
    LET new_node == NodeNew(item)
        r        == IF self.root = None
                    THEN [node |-> new_node, ret |-> TRUE]
                    ELSE NodeInsert(self.root[1], new_node)
        inserted == r.ret
    IN  [tree |-> [root |-> Some(r.node),
                   len  |-> IF ~inserted THEN self.len + 1 ELSE self.len],
         ret  |-> inserted]

\* Mutant: the root's item is not compared before the root is entered.
BinaryTreeRemoveItem_NoRootCheck(self, item) ==
    IF self.root = None
    THEN [tree |-> self, ret |-> None, panic |-> "none"]
    ELSE LET r == NodeRemoveItem(self.root[1], item)
         IN  [tree  |-> [self EXCEPT !.root = Some(r.node)],
              ret   |-> r.ret,
              panic |-> r.panic]

\* BinaryTree::remove_item(&mut self, item) -> Option<T>, or a panic.
BinaryTreeRemoveItem(self, item) ==
    IF self.root # None /\ self.root[1].item = item
    THEN LET rs == NodeRemoveSelf(self.root[1])
         IN  [tree  |-> [self EXCEPT !.root = rs.node],
              ret   |-> IF rs.panic = "none" THEN Some(rs.item) ELSE None,
              panic |-> rs.panic]
    ELSE IF self.root = None
         THEN [tree |-> self, ret |-> None, panic |-> "none"]
         ELSE LET r == NodeRemoveItem(self.root[1], item)
              IN  [tree  |-> [self EXCEPT !.root = Some(r.node)],
                   ret   |-> r.ret,
                   panic |-> r.panic]

\* FromIterator::from_iter(iter): insert every item in order, results ignored.
RECURSIVE FromIterLoop(_, _)
FromIterLoop(tree, iter) ==
    IF iter = <<>> THEN tree
    ELSE FromIterLoop(BinaryTreeInsert(tree, Head(iter)).tree, Tail(iter))

FromIter(iter) == FromIterLoop(BinaryTreeNew, iter)

\* ------------------------------------------------------------------ sorts.rs
\* A slice is a sequence; the code's indices are 0-based.
At(items, i) == items[i + 1]

\* <[T]>::swap(a, b)
Swap(items, a, b) ==
    [k \in 1..Len(items) |->
        IF k = a + 1 THEN items[b + 1]
        ELSE IF k = b + 1 THEN items[a + 1]
        ELSE items[k]]

\* items.iter().enumerate().min_by_key(|(_i, k)| *k): a fold that keeps the
\* earlier element unless the later one is strictly smaller.  best is the
\* index held so far, i the next index.
RECURSIVE MinByKey(_, _, _)
MinByKey(items, best, i) ==
    IF i >= Len(items) THEN best
    ELSE IF At(items, i) < At(items, best)
         THEN MinByKey(items, i, i + 1)
         ELSE MinByKey(items, best, i + 1)

\* Mutant: the minimum is found but not moved to the front.
RECURSIVE SelectionSort_NoSwap(_)
SelectionSort_NoSwap(items) ==
    IF items = <<>> THEN <<>>
    ELSE <<items[1]>> \o SelectionSort_NoSwap(Tail(items))

\* selection_sort(items): the slice when the while loop ends.
RECURSIVE SelectionSort(_)
SelectionSort(items) ==
    IF items = <<>> THEN <<>>
    ELSE LET min     == MinByKey(items, 0, 1)
             swapped == Swap(items, 0, min)
         IN  <<swapped[1]>> \o SelectionSort(Tail(swapped))

\* The inner loop of insertion_sort, from index j downwards.
RECURSIVE InsertionInner(_, _)
InsertionInner(sorted, j) ==
    IF j < 1 THEN sorted
    ELSE IF At(sorted, j) < At(sorted, j - 1)
         THEN InsertionInner(Swap(sorted, j, j - 1), j - 1)
         ELSE sorted

\* The outer loop of insertion_sort, from index i upwards.
RECURSIVE InsertionOuter(_, _)
InsertionOuter(items, i) ==
    IF i >= Len(items) THEN items
    ELSE InsertionOuter(InsertionInner(items, i), i + 1)

\* insertion_sort(items)
InsertionSort(items) == InsertionOuter(items, 1)

\* itertools::merge(left, right): the smaller head first, the left one on a tie.
RECURSIVE Merge(_, _)
Merge(left, right) ==
    IF left = <<>> THEN right
    ELSE IF right = <<>> THEN left
    ELSE IF Head(left) <= Head(right)
         THEN <<Head(left)>> \o Merge(Tail(left), right)
         ELSE <<Head(right)>> \o Merge(left, Tail(right))

\* items.iter_mut().zip(scratch.iter_mut()) with mem::swap on every pair.
ZipSwap(items, scratch) ==
    LET n == IF Len(items) <= Len(scratch) THEN Len(items) ELSE Len(scratch)
    IN  [items   |-> [k \in 1..Len(items) |->
                         IF k <= n THEN scratch[k] ELSE items[k]],
         scratch |-> [k \in 1..Len(scratch) |->
                         IF k <= n THEN items[k] ELSE scratch[k]]]

\* merge_sort::merge_helper(scratch, items): both after the call.
RECURSIVE MergeHelper(_, _)
MergeHelper(scratch, items) ==
    IF Len(items) <= 1 THEN [items |-> items, scratch |-> scratch]
    ELSE LET pivot  == Len(items) \div 2
             left   == MergeHelper(scratch, SubSeq(items, 1, pivot)).items
             right  == MergeHelper(<<>>, SubSeq(items, pivot + 1, Len(items))).items
             pushed == <<>> \o Merge(left, right)
         IN  ZipSwap(left \o right, pushed)

\* merge_sort(items)
MergeSort(items) == MergeHelper(<<>>, items).items

\* The for loop of quick_sort::partition from index i on.
RECURSIVE PartitionLoop(_, _, _, _)
PartitionLoop(items, pivot, first_high, i) ==
    IF i >= Len(items) THEN [items |-> items, first_high |-> first_high]
    ELSE IF At(items, i) < At(items, pivot)
         THEN PartitionLoop(Swap(items, i, first_high), pivot, first_high + 1, i + 1)
         ELSE PartitionLoop(items, pivot, first_high, i + 1)

\* quick_sort::partition(items) -> usize, and items after the call.
Partition(items) ==
    LET pivot == Len(items) - 1
        loop  == PartitionLoop(items, pivot, 0, 0)
    IN  [items |-> Swap(loop.items, pivot, loop.first_high),
         pivot |-> loop.first_high]

\* quick_sort(items).  A call whose right part is the whole slice with the
\* contents the call itself was entered with repeats itself without end and
\* exhausts the stack: stack_overflow.  same_len_call tells whether some
\* call was made on a slice as long as its caller's.
RECURSIVE QuickSort(_)
QuickSort(items) ==
    IF Len(items) > 1
    THEN LET p     == Partition(items)
             left  == SubSeq(p.items, 1, p.pivot)
             right == SubSeq(p.items, p.pivot + 1, Len(items))
         IN  IF right = items
             THEN [items |-> p.items, stack_overflow |-> TRUE,
                   same_len_call |-> TRUE]
             ELSE LET l == QuickSort(left)
                  IN  IF l.stack_overflow
                      THEN [items |-> l.items \o right, stack_overflow |-> TRUE,
                            same_len_call |-> l.same_len_call
                                                \/ Len(right) = Len(items)]
                      ELSE LET r == QuickSort(right)
                           IN  [items |-> l.items \o r.items,
                                stack_overflow |-> r.stack_overflow,
                                same_len_call |-> \/ l.same_len_call
                                                  \/ r.same_len_call
                                                  \/ Len(right) = Len(items)]
    ELSE [items |-> items, stack_overflow |-> FALSE, same_len_call |-> FALSE]

\* ------------------------------------------------------------------ substr.rs
\* Wrapping<u32> is the sequence of its four bytes, least significant first,
\* so that no intermediate value leaves the range of the checker's integers
\* while every operation is still taken modulo 2^32.
U32(c) == <<c, 0, 0, 0>>

\* Wrapping<u32> + Wrapping<u32>
WrappingAdd(a, b) ==
    LET s1 == a[1] + b[1]
        s2 == a[2] + b[2] + (s1 \div 256)
        s3 == a[3] + b[3] + (s2 \div 256)
        s4 == a[4] + b[4] + (s3 \div 256)
    IN  <<s1 % 256, s2 % 256, s3 % 256, s4 % 256>>

\* Wrapping<u32> - Wrapping<u32>
WrappingSub(a, b) ==
    LET d1 == a[1] - b[1]
        d2 == a[2] - b[2] - (IF d1 < 0 THEN 1 ELSE 0)
        d3 == a[3] - b[3] - (IF d2 < 0 THEN 1 ELSE 0)
        d4 == a[4] - b[4] - (IF d3 < 0 THEN 1 ELSE 0)
    IN  <<(d1 + 256) % 256, (d2 + 256) % 256, (d3 + 256) % 256, (d4 + 256) % 256>>

\* Wrapping<u32> * Wrapping<u32>: the low four bytes of the product.
WrappingMul(a, b) ==
    LET c1 == a[1] * b[1]
        c2 == a[1] * b[2] + a[2] * b[1] + (c1 \div 256)
        c3 == a[1] * b[3] + a[2] * b[2] + a[3] * b[1] + (c2 \div 256)
        c4 == a[1] * b[4] + a[2] * b[3] + a[3] * b[2] + a[4] * b[1] + (c3 \div 256)
    IN  <<c1 % 256, c2 % 256, c3 % 256, c4 % 256>>

\* Wrapping<u32>::pow(self, exp)
RECURSIVE WrappingPow(_, _)
WrappingPow(base, exp) ==
    IF exp = 0 THEN U32(1) ELSE WrappingMul(base, WrappingPow(base, exp - 1))

\* const ALPHA: Wrapping<u32> = Wrapping(1_u32 << 8)
ALPHA == <<0, 1, 0, 0>>

\* The for loop of WindowHasher::new from index i on.
RECURSIVE WindowHasherNewLoop(_, _, _, _)
WindowHasherNewLoop(state, first_window, window_size, i) ==
    IF i >= Len(first_window) THEN state
    ELSE LET c          == first_window[i + 1]
             alpha_term == WrappingPow(ALPHA, window_size - i - 1)
         IN  WindowHasherNewLoop(WrappingAdd(state, WrappingMul(alpha_term, U32(c))),
                                 first_window, window_size, i + 1)

\* WindowHasher::new(first_window)
WindowHasherNew(first_window) ==
    LET window_size == Len(first_window)
    IN  [state       |-> WindowHasherNewLoop(U32(0), first_window, window_size, 0),
         window_size |-> window_size,
         window      |-> first_window]

\* Mutant: the byte that leaves the window is not taken out of the state.
WindowHasherNext_KeepOld(self, new) ==
    [self EXCEPT !.window = Append(Tail(self.window), new),
                 !.state  = WrappingAdd(WrappingMul(ALPHA, self.state), U32(new))]

\* WindowHasher::next(&mut self, new): self after the call.  The window is
\* not empty (substr returns before building a hasher for an empty pattern).
WindowHasherNext(self, new) ==
    LET old == U32(Head(self.window))
        s   == WrappingSub(self.state,
                           WrappingMul(old, WrappingPow(ALPHA, self.window_size - 1)))
    IN  [self EXCEPT !.window = Append(Tail(self.window), new),
                     !.state  = WrappingAdd(WrappingMul(ALPHA, s), U32(new))]

\* WindowHasher::hash(&self) -> u32
WindowHasherHash(self) == self.state

\* hash_it(text) -> u32
HashIt(text) == WindowHasherHash(WindowHasherNew(text))

\* The for loop of substr: k is the index of the next byte, curr the offset
\* of the window h covers.
RECURSIVE SubstrLoop(_, _, _, _, _)
SubstrLoop(h, bytes, k, curr, p_h) ==
    IF k >= Len(bytes) THEN None
    ELSE LET next == WindowHasherNext(h, bytes[k + 1])
         IN  IF WindowHasherHash(next) = p_h
             THEN Some(curr + 1)
             ELSE SubstrLoop(next, bytes, k + 1, curr + 1, p_h)

\* substr(text, pattern) -> Option<usize>
Substr(text, pattern) ==
    IF Len(text) < Len(pattern) \/ Len(pattern) = 0 THEN None
    ELSE LET p_len == Len(pattern)
             p_h   == HashIt(pattern)
             h     == WindowHasherNew(SubSeq(text, 1, p_len))
         IN  IF WindowHasherHash(h) = p_h
             THEN Some(0)
             ELSE SubstrLoop(h, text, p_len, 0, p_h)

\* ------------------------------------------------------------------ state
VARIABLES
    tree,   \* the BinaryTree under test: [root, len]
    pre,    \* the same BinaryTree as it was when the last call was entered
    call,   \* the last call: its name, arguments, return value, and panic
    set,    \* the mathematical set the caller's calls describe
    args,   \* the arguments of the function under test (sorts.rs, substr.rs)
    result  \* what the last call of that function returned or left behind

vars == <<tree, pre, call, set, args, result>>

NotRun == [fn |-> "none"]

NoCall ==
    [op |-> "new", arg |-> 0, input |-> <<>>, inserted |-> FALSE,
     removed |-> None, panic |-> "none"]

Range(s) == {s[i] : i \in 1..Len(s)}

Init ==
    /\ tree = BinaryTreeNew
    /\ pre = BinaryTreeNew
    /\ call = NoCall
    /\ set = {}
    /\ args = <<>>
    /\ result = NotRun

\* BinaryTree::new(): a fresh tree (the next test, or after a failed one).
New ==
    /\ call.op # "new"
    /\ tree' = BinaryTreeNew
    /\ pre' = BinaryTreeNew
    /\ call' = NoCall
    /\ set' = {}
    /\ UNCHANGED <<args, result>>

Insert(item) ==
    /\ call.panic = "none"
    /\ tree.len < MaxLenField
    /\ LET r == BinaryTreeInsert(tree, item)
       IN  /\ tree' = r.tree
           /\ call' = [NoCall EXCEPT !.op = "insert", !.arg = item,
                                     !.inserted = r.ret]
    /\ pre' = tree
    /\ set' = set \cup {item}
    /\ UNCHANGED <<args, result>>

RemoveItem(item) ==
    /\ call.panic = "none"
    /\ LET r == BinaryTreeRemoveItem(tree, item)
       IN  /\ tree' = r.tree
           /\ call' = [NoCall EXCEPT !.op = "remove_item", !.arg = item,
                                     !.removed = r.ret, !.panic = r.panic]
    /\ pre' = tree
    /\ set' = set \ {item}
    /\ UNCHANGED <<args, result>>

\* BinaryTree::from(vec / slice / array) and collect(): all go to from_iter.
Build(input) ==
    /\ call.panic = "none"
    /\ tree' = FromIter(input)
    /\ pre' = BinaryTreeNew
    /\ call' = [NoCall EXCEPT !.op = "from_iter", !.input = input]
    /\ set' = Range(input)
    /\ UNCHANGED <<args, result>>

Next ==
    \/ New
    \/ \E item \in Elems : Insert(item)
    \/ \E item \in Elems : RemoveItem(item)
    \/ \E input \in Inputs : Build(input)

Spec == Init /\ [][Next]_vars

\* ------------------------------------------------------------------ sorts.rs: the calls
Idle ==
    /\ tree = BinaryTreeNew
    /\ pre = BinaryTreeNew
    /\ call = NoCall
    /\ set = {}

InitSorts ==
    /\ Idle
    /\ args \in Slices
    /\ result = NotRun

RunSelectionSort ==
    /\ result' = [fn |-> "selection_sort", items |-> SelectionSort(args),
                  returned |-> TRUE]
    /\ UNCHANGED <<tree, pre, call, set, args>>

RunInsertionSort ==
    /\ result' = [fn |-> "insertion_sort", items |-> InsertionSort(args),
                  returned |-> TRUE]
    /\ UNCHANGED <<tree, pre, call, set, args>>

RunMergeSort ==
    /\ result' = [fn |-> "merge_sort", items |-> MergeSort(args),
                  returned |-> TRUE]
    /\ UNCHANGED <<tree, pre, call, set, args>>

RunQuickSort ==
    /\ LET r == QuickSort(args)
       IN  result' = [fn |-> "quick_sort", items |-> r.items,
                      returned |-> ~r.stack_overflow,
                      same_len_call |-> r.same_len_call]
    /\ UNCHANGED <<tree, pre, call, set, args>>

NextSorts ==
    \/ RunSelectionSort
    \/ RunInsertionSort
    \/ RunMergeSort
    \/ RunQuickSort

SpecSorts == InitSorts /\ [][NextSorts]_vars

\* ------------------------------------------------------------------ substr.rs: the calls
InitSubstr ==
    /\ Idle
    /\ args \in [text : BytesUpTo(MaxText), pattern : BytesUpTo(MaxPattern)]
    /\ result = NotRun

RunSubstr ==
    /\ result.fn = "none"
    /\ result' = [fn |-> "substr", ret |-> Substr(args.text, args.pattern)]
    /\ UNCHANGED <<tree, pre, call, set, args>>

NextSubstr == RunSubstr

SpecSubstr == InitSubstr /\ [][NextSubstr]_vars

\* A hasher over a non-empty first window, then rolled byte by byte.
InitHasher ==
    /\ Idle
    /\ args \in BytesUpTo(MaxWindow) \ {<<>>}
    /\ result = NotRun

HasherNew ==
    /\ result.fn = "none"
    /\ result' = [fn |-> "new", hasher |-> WindowHasherNew(args)]
    /\ UNCHANGED <<tree, pre, call, set, args>>

HasherNext(new) ==
    /\ result.fn \in {"new", "next"}
    /\ result' = [fn |-> "next", hasher |-> WindowHasherNext(result.hasher, new),
                  before |-> result.hasher, byte |-> new]
    /\ UNCHANGED <<tree, pre, call, set, args>>

NextHasher ==
    \/ HasherNew
    \/ \E new \in Bytes : HasherNext(new)

SpecHasher == InitHasher /\ [][NextHasher]_vars

\* ------------------------------------------------------------------ helpers of the properties
ElemsOf(t) == Range(BinaryTreeIter(t))

Without(s, x) == SelectSeq(s, LAMBDA e : e # x)

StrictlyAscending(s) == \A i, j \in 1..Len(s) : i < j => s[i] < s[j]

\* Every item below o lies strictly between lo and hi, at every node.
RECURSIVE IsSearchTree(_, _, _)
IsSearchTree(o, lo, hi) ==
    \/ o = None
    \/ /\ lo < o[1].item
       /\ o[1].item < hi
       /\ IsSearchTree(o[1].left, lo, o[1].item)
       /\ IsSearchTree(o[1].right, o[1].item, hi)

\* Number of nodes reachable from the slot o.
RECURSIVE NodeCount(_)
NodeCount(o) ==
    IF o = None THEN 0 ELSE 1 + NodeCount(o[1].left) + NodeCount(o[1].right)

\* The slot o with the slot of the node that holds x overwritten by repl.
RECURSIVE SlotReplaced(_, _, _)
SlotReplaced(o, x, repl) ==
    IF o = None THEN None
    ELSE IF x = o[1].item THEN repl
    ELSE IF x < o[1].item
         THEN Some([o[1] EXCEPT !.left = SlotReplaced(o[1].left, x, repl)])
         ELSE Some([o[1] EXCEPT !.right = SlotReplaced(o[1].right, x, repl)])

\* The ascending enumeration of the distinct elements of s.
SortedDistinct(s) ==
    LET S == Range(s)
    IN  [i \in 1..Cardinality(S) |->
            CHOOSE e \in S : Cardinality({d \in S : d < e}) = i - 1]

\* The node that held the argument of the last call when it was entered.
Target == IF pre.root = None THEN None ELSE NodeFind(pre.root[1], call.arg)

TargetChildren ==
    IF Target = None THEN 0
    ELSE (IF Target[1].left = None THEN 0 ELSE 1)
         + (IF Target[1].right = None THEN 0 ELSE 1)

\* ------------------------------------------------------------------ C1
\* C1: in every state reached by insert and remove_item from an empty tree,
\* the in-order traversal is strictly ascending (hence without repeats) and
\* every node's left subtree holds only smaller, its right only greater items.
InOrderStrictlyAscending ==
    /\ StrictlyAscending(BinaryTreeIter(tree))
    /\ IsSearchTree(tree.root, 0, MaxElem + 1)

InOrderStrictlyAscending_Witness ==
    /\ call.op = "remove_item"
    /\ call.removed # None
    /\ BinaryTreeLen(tree) >= 3
    /\ BinaryTreeHeight(tree) < BinaryTreeLen(tree)

\* ------------------------------------------------------------------ C2
\* C2: insert(x) returns true iff x was not already stored, at any depth.
InsertReturnsTrueIffNew ==
    call.op = "insert" => (call.inserted <=> call.arg \notin ElemsOf(pre))

\* ------------------------------------------------------------------ C3
\* C3: removing a present element whose node has two children does not
\* abort, returns the element, deletes exactly it from the in-order sequence,
\* makes len() one smaller, and the in-order successor takes the position.
RemoveTwoChildren ==
    (call.op = "remove_item" /\ TargetChildren = 2) =>
        /\ call.panic = "none"
        /\ call.removed = Some(call.arg)
        /\ BinaryTreeIter(tree) = Without(BinaryTreeIter(pre), call.arg)
        /\ BinaryTreeLen(tree) = BinaryTreeLen(pre) - 1
        /\ LET succ == NodeMin(Target[1].right[1]).item
               now  == IF tree.root = None THEN None ELSE NodeFind(tree.root[1], succ)
           IN  /\ now # None
               /\ now[1].left = Target[1].left
               /\ SlotReplaced(pre.root, call.arg, None)
                    = SlotReplaced(tree.root, succ, None)

\* ------------------------------------------------------------------ C4
\* C4: removing a present element whose node has at most one child returns
\* the element, puts the node's only child subtree (or nothing) into the
\* node's slot, deletes exactly that element from the in-order sequence and
\* makes len() one smaller.
RemoveAtMostOneChild ==
    (call.op = "remove_item" /\ Target # None /\ TargetChildren <= 1) =>
        /\ call.panic = "none"
        /\ call.removed = Some(call.arg)
        /\ tree.root = SlotReplaced(pre.root, call.arg,
                           IF Target[1].left # None THEN Target[1].left
                                                    ELSE Target[1].right)
        /\ BinaryTreeIter(tree) = Without(BinaryTreeIter(pre), call.arg)
        /\ BinaryTreeLen(tree) = BinaryTreeLen(pre) - 1

RemoveAtMostOneChild_Witness ==
    /\ call.op = "remove_item"
    /\ Target # None
    /\ TargetChildren = 1
    /\ pre.root[1].item # call.arg
    /\ call.removed = Some(call.arg)
    /\ BinaryTreeLen(tree) >= 2

\* ------------------------------------------------------------------ C5
\* C5: the field len equals the number of nodes reachable from root; insert
\* adds one exactly when it inserted, remove_item subtracts one exactly when
\* it removed.
LenFieldCountsNodes ==
    /\ tree.len = NodeCount(tree.root)
    /\ call.op = "insert" =>
           tree.len = pre.len + (IF call.inserted THEN 1 ELSE 0)
    /\ (call.op = "remove_item" /\ call.panic = "none") =>
           tree.len = pre.len - (IF call.removed # None THEN 1 ELSE 0)

\* ------------------------------------------------------------------ C6
\* C6: remove_item(x) on a tree without x (the empty tree included) returns
\* None, does not abort, and leaves the tree as it was.
RemoveAbsentIsNoop ==
    (call.op = "remove_item" /\ call.arg \notin ElemsOf(pre)) =>
        /\ call.panic = "none"
        /\ call.removed = None
        /\ tree.root = pre.root
        /\ BinaryTreeIter(tree) = BinaryTreeIter(pre)
        /\ BinaryTreeLen(tree) = BinaryTreeLen(pre)

RemoveAbsentIsNoop_Witness ==
    /\ call.op = "remove_item"
    /\ call.arg \notin ElemsOf(pre)
    /\ call.removed = None
    /\ BinaryTreeHeight(pre) >= 2
    /\ BinaryTreeLen(pre) >= 3

\* ------------------------------------------------------------------ C7
\* C7: for an element x of the tree, remove_item(x) returns Some(x), then
\* contains(x) is false, and a second remove_item(x) returns None and leaves
\* the tree as the first call left it.
RemoveTwice ==
    (call.op = "remove_item" /\ call.arg \in ElemsOf(pre)) =>
        /\ call.panic = "none"
        /\ call.removed = Some(call.arg)
        /\ ~BinaryTreeContains(tree, call.arg)
        /\ LET second == BinaryTreeRemoveItem(tree, call.arg)
           IN  /\ second.panic = "none"
               /\ second.ret = None
               /\ second.tree = tree

\* ------------------------------------------------------------------ C8
\* C8: contains(x) is true exactly for the elements inserted and not removed
\* since: the tree refines the set.
ContainsRefinesSet ==
    \A x \in Elems : BinaryTreeContains(tree, x) <=> x \in set

\* ------------------------------------------------------------------ C9
\* C9: inserting an element the tree already contains leaves its shape, its
\* in-order sequence, len() and height() as they were.
InsertDuplicateIsNoop ==
    (call.op = "insert" /\ call.arg \in ElemsOf(pre)) =>
        /\ tree.root = pre.root
        /\ BinaryTreeIter(tree) = BinaryTreeIter(pre)
        /\ BinaryTreeLen(tree) = BinaryTreeLen(pre)
        /\ BinaryTreeHeight(tree) = BinaryTreeHeight(pre)

InsertDuplicateIsNoop_Witness ==
    /\ call.op = "insert"
    /\ call.arg \in ElemsOf(pre)
    /\ pre.root[1].item # call.arg
    /\ BinaryTreeHeight(pre) >= 3

\* ------------------------------------------------------------------ C10
\* C10: a tree built from a finite sequence iterates as the ascending
\* sequence of the distinct elements of the input, which for an input of
\* distinct elements is the sorted input (same length).
BuildThenIterIsSorted ==
    call.op = "from_iter" =>
        /\ BinaryTreeIter(tree) = SortedDistinct(call.input)
        /\ Cardinality(Range(call.input)) = Len(call.input) =>
               Len(BinaryTreeIter(tree)) = Len(call.input)

BuildThenIterIsSorted_Witness ==
    /\ call.op = "from_iter"
    /\ Len(call.input) = MaxInput
    /\ Cardinality(Range(call.input)) < Len(call.input)
    /\ ~StrictlyAscending(call.input)
    /\ BinaryTreeLen(tree) >= 2

\* ------------------------------------------------------------------ C11
\* The set of items stored below the slot o.
RECURSIVE ItemSet(_)
ItemSet(o) ==
    IF o = None THEN {}
    ELSE {o[1].item} \cup ItemSet(o[1].left) \cup ItemSet(o[1].right)

\* C11: two trees compare equal exactly when they hold the same set of
\* elements, whatever their shapes; here the tree under test against every
\* tree built from a short input, and against its own previous value.
EqIffSameElements ==
    /\ \A input \in Inputs :
           BinaryTreeEq(tree, FromIter(input))
               <=> ItemSet(tree.root) = Range(input)
    /\ BinaryTreeEq(tree, pre) <=> ItemSet(tree.root) = ItemSet(pre.root)
    /\ BinaryTreeEq(pre, tree) <=> ItemSet(tree.root) = ItemSet(pre.root)

\* Equal trees of different shapes, and a tree that is a proper prefix of
\* another in in-order.
EqIffSameElements_Witness ==
    /\ call.op = "remove_item"
    /\ call.removed # None
    /\ BinaryTreeLen(tree) = 3
    /\ \E input \in Inputs :
           /\ BinaryTreeEq(tree, FromIter(input))
           /\ FromIter(input).root # tree.root
    /\ \E input \in Inputs :
           /\ ~BinaryTreeEq(tree, FromIter(input))
           /\ Range(input) # {}
           /\ Range(input) \subseteq ItemSet(tree.root)

\* ------------------------------------------------------------------ C12
\* C12: min() and max() are None exactly on the empty tree and otherwise the
\* smallest and the largest stored element.
MinMaxAreExtremes ==
    LET S == ItemSet(tree.root)
    IN  /\ BinaryTreeMin(tree) = None <=> S = {}
        /\ BinaryTreeMax(tree) = None <=> S = {}
        /\ S # {} =>
              /\ BinaryTreeMin(tree) = Some(CHOOSE m \in S : \A e \in S : m <= e)
              /\ BinaryTreeMax(tree) = Some(CHOOSE m \in S : \A e \in S : e <= m)
              /\ BinaryTreeMin(tree)[1] = BinaryTreeIter(tree)[1]
              /\ BinaryTreeMax(tree)[1] = BinaryTreeIter(tree)[BinaryTreeLen(tree)]

\* The minimum lies two steps left of the root and is not the root's child.
MinMaxAreExtremes_Witness ==
    /\ call.op \in {"insert", "remove_item"}
    /\ call.panic = "none"
    /\ tree.root # None
    /\ tree.root[1].left # None
    /\ tree.root[1].left[1].left # None
    /\ tree.root[1].right # None
    /\ BinaryTreeMin(tree) = Some(1)

\* ------------------------------------------------------------------ C13
\* The depths (root = 1) of the nodes below the slot o, which is at depth d.
RECURSIVE NodeDepths(_, _)
NodeDepths(o, d) ==
    IF o = None THEN {}
    ELSE {d} \cup NodeDepths(o[1].left, d + 1) \cup NodeDepths(o[1].right, d + 1)

LongestPath(o) ==
    IF o = None THEN 0
    ELSE CHOOSE m \in NodeDepths(o, 1) : \A d \in NodeDepths(o, 1) : d <= m

\* height() after each insert of items into an empty tree.
RECURSIVE HeightsWhileInserting(_, _)
HeightsWhileInserting(t, items) ==
    IF items = <<>> THEN <<>>
    ELSE LET next == BinaryTreeInsert(t, Head(items)).tree
         IN  <<BinaryTreeHeight(next)>> \o HeightsWhileInserting(next, Tail(items))

SKIENA_TREE == <<2, 1, 7, 4, 8, 3, 6, 5>>

\* C13: height() is 0 on the empty tree and otherwise the number of nodes on
\* the longest root-to-leaf path; a strictly increasing input of n elements
\* gives height n; the inserts 2,1,7,4,8,3,6,5 give 1,2,2,3,3,4,4,5.
HeightIsLongestPath ==
    /\ BinaryTreeHeight(tree) = LongestPath(tree.root)
    /\ tree.root = None => BinaryTreeHeight(tree) = 0
    /\ (call.op = "from_iter" /\ StrictlyAscending(call.input)) =>
           BinaryTreeHeight(tree) = Len(call.input)
    /\ HeightsWhileInserting(BinaryTreeNew, SKIENA_TREE)
           = <<1, 2, 2, 3, 3, 4, 4, 5>>

\* The longest path runs through a right child; the tree is not a chain.
HeightIsLongestPath_Witness ==
    /\ call.op = "insert"
    /\ call.arg \notin ItemSet(pre.root)
    /\ BinaryTreeHeight(tree) = 3
    /\ BinaryTreeLen(tree) = 4
    /\ tree.root[1].left # None
    /\ NodeHeight(tree.root[1].left[1]) < NodeHeight(tree.root[1].right[1])

\* ------------------------------------------------------------------ C14
\* C14: is_empty() holds exactly when len() is 0, exactly when root is
\* absent; removing the only element leaves a tree equal to a new one.
IsEmptyIffLenZero ==
    /\ BinaryTreeIsEmpty(tree) <=> BinaryTreeLen(tree) = 0
    /\ BinaryTreeIsEmpty(tree) <=> tree.root = None
    /\ (call.op = "remove_item" /\ BinaryTreeLen(pre) = 1
            /\ call.arg \in ItemSet(pre.root)) =>
           /\ BinaryTreeIsEmpty(tree)
           /\ BinaryTreeEq(tree, BinaryTreeNew)

IsEmptyIffLenZero_Witness ==
    /\ call.op = "remove_item"
    /\ BinaryTreeLen(pre) = 1
    /\ call.removed = Some(call.arg)
    /\ BinaryTreeIsEmpty(tree)

\* ------------------------------------------------------------------ C18
\* C18: the unreachable!() arm of Node::remove_item is never executed.
UnreachableIsNeverReached ==
    call.panic # "unreachable"

\* A removal that had to enter Node::remove_item twice: found below a
\* grandchild of the root, or missed there.
UnreachableIsNeverReached_Witness ==
    /\ call.op = "remove_item"
    /\ call.panic = "none"
    /\ BinaryTreeHeight(pre) >= 3
    /\ pre.root[1].item # call.arg
    /\ \/ /\ call.arg < pre.root[1].item
          /\ pre.root[1].left # None
          /\ pre.root[1].left[1].item # call.arg
          /\ pre.root[1].left[1].left # None \/ pre.root[1].left[1].right # None
       \/ /\ call.arg > pre.root[1].item
          /\ pre.root[1].right # None
          /\ pre.root[1].right[1].item # call.arg
          /\ pre.root[1].right[1].left # None \/ pre.root[1].right[1].right # None

\* ------------------------------------------------------------------ C16
\* How often x occurs in s.
Count(s, x) == Cardinality({i \in 1..Len(s) : s[i] = x})

IsPermutation(s, t) ==
    /\ Len(s) = Len(t)
    /\ \A x \in Range(s) \cup Range(t) : Count(s, x) = Count(t, x)

Ascending(s) == \A i \in 1..(Len(s) - 1) : s[i] <= s[i + 1]

\* C16: each of the four sorts, when it returns, leaves the slice ascending
\* and a permutation of its input.
SortsSortWhenTheyReturn ==
    (result.fn # "none" /\ result.returned) =>
        /\ Ascending(result.items)
        /\ IsPermutation(result.items, args)

\* A slice with a repeated element, not in order, sorted by a sort that
\* returned.
SortsSortWhenTheyReturn_Witness ==
    /\ result.fn \in {"selection_sort", "insertion_sort", "merge_sort"}
    /\ result.returned
    /\ Len(args) = MaxItems
    /\ ~Ascending(args)
    /\ Cardinality(Range(args)) < Len(args)
    /\ result.items # args

\* ------------------------------------------------------------------ C17
\* C17: quick_sort terminates on every slice, slices with equal elements
\* included, every recursive call being on a strictly shorter slice than
\* its caller's.
QuickSortTerminates ==
    result.fn = "quick_sort" =>
        /\ result.returned
        /\ ~result.same_len_call

\* ------------------------------------------------------------------ C15
\* The offsets (0-based) at which pattern occurs in text, byte for byte.
Occurrences(text, pattern) ==
    {i \in 0..(Len(text) - Len(pattern)) :
        \A k \in 1..Len(pattern) : text[i + k] = pattern[k]}

\* C15: for a non-empty pattern substr returns the smallest offset at which
\* the pattern occurs in the text, and None when it occurs nowhere.
SubstrFindsFirstOccurrence ==
    (result.fn = "substr" /\ args.pattern # <<>>) =>
        LET occ == Occurrences(args.text, args.pattern)
        IN  /\ occ = {} => result.ret = None
            /\ occ # {} =>
                   result.ret = Some(CHOOSE i \in occ : \A j \in occ : i <= j)

\* ------------------------------------------------------------------ C19
\* C19: after next(b) the state of the hasher is the state of a hasher newly
\* built over the window with its first byte dropped and b appended (all
\* four bytes, that is modulo 2^32), and the stored window is that window.
RollingAgreesWithRecomputation ==
    result.fn = "next" =>
        LET shifted == Append(Tail(result.before.window), result.byte)
        IN  /\ result.hasher.state = WindowHasherNew(shifted).state
            /\ result.hasher.window = shifted
            /\ result.hasher.window_size = Len(shifted)

\* A window of four bytes (every byte of the state in use) whose first byte
\* differs from the one that enters, rolled twice.
RollingAgreesWithRecomputation_Witness ==
    /\ result.fn = "next"
    /\ Len(args) = 4
    /\ result.before.window # args
    /\ Head(result.before.window) # result.byte
    /\ result.hasher.state # result.before.state

====
